---------------------------- MODULE Spec2Model ----------------------------
(***************************************************************************)
(* Model of icelandic_holidays.py: the Easter computation, the sixteen     *)
(* holiday rules kept in the registry __holiday_funs, and the queries      *)
(* is_weekday, is_holiday, is_businessday and is_bankday.                  *)
(*                                                                         *)
(* A Python value is a record [exc, b, date]: exc is "none" for a normal   *)
(* return and the exception's name for a raise; b carries a returned bool  *)
(* and date a returned datetime.  A datetime is [year, month, day] (the    *)
(* module only ever builds midnight datetimes and compares .date()).       *)
(***************************************************************************)
EXTENDS Integers, Sequences, FiniteSets

VARIABLES
    year,    \* the argument of a get_easter_sunday call
    dt,      \* the datetime handed to a rule or a query
    pc,      \* "call": nothing called yet; "done": the call has ended;
             \* "summer_loop" / "merchant_loop": inside a rule's while loop
    op,      \* the function that was called
    result,  \* what the call returned or raised
    d,       \* the loop variable d of the two searching rules
    iters    \* passes through the body of the running while loop

vars == <<year, dt, pc, op, result, d, iters>>

---------------------------------------------------------------------------
(* Bounds of the model *)

\* years on each side of 1583 that the queries and get_easter_sunday are tried on
OldSpan == 5
\* years on each side of 2013 that the queries and the rules are tried on
ModernSpan == 6
\* years past 2200 that get_easter_sunday is tried on
EasterMargin == 100
\* years on each side of datetime's last year that get_easter_sunday is tried on
TopSpan == 3
\* cap on the passes through a rule's while loop
MaxIters == 10

---------------------------------------------------------------------------
(* Program constants *)

MinValidYear == 1583
TestFirstYear == 1800
TestLastYear == 2200
RefYear == 2013
MINYEAR == 1
MAXYEAR == 9999

---------------------------------------------------------------------------
(* Python values *)

NoDate == [year |-> 0, month |-> 0, day |-> 0]

PyBool(v) == [exc |-> "none", b |-> v, date |-> NoDate]

PyDate(x) == [exc |-> "none", b |-> FALSE, date |-> x]

PyRaise(e) == [exc |-> e, b |-> FALSE, date |-> NoDate]

NoResult == PyBool(FALSE)

---------------------------------------------------------------------------
(* datetime, as the standard library computes it (proleptic Gregorian) *)

is_leap(y) == y % 4 = 0 /\ (y % 100 # 0 \/ y % 400 = 0)

days_in_month(y, m) ==
    IF m = 2 THEN (IF is_leap(y) THEN 29 ELSE 28)
    ELSE IF m \in {4, 6, 9, 11} THEN 30 ELSE 31

days_before_month(y, m) ==
    <<0, 31, 59, 90, 120, 151, 181, 212, 243, 273, 304, 334>>[m]
        + (IF m > 2 /\ is_leap(y) THEN 1 ELSE 0)

days_before_year(y) ==
    (y - 1) * 365 + ((y - 1) \div 4) - ((y - 1) \div 100) + ((y - 1) \div 400)

\* the checks of the datetime(year, month, day) constructor
valid_date(y, m, dd) ==
    /\ MINYEAR <= y /\ y <= MAXYEAR
    /\ 1 <= m /\ m <= 12
    /\ 1 <= dd /\ dd <= days_in_month(y, m)

mkdate(y, m, dd) == [year |-> y, month |-> m, day |-> dd]

\* datetime(year, month, day): the value, or ValueError
datetime(y, m, dd) ==
    IF valid_date(y, m, dd) THEN PyDate(mkdate(y, m, dd)) ELSE PyRaise("ValueError")

toordinal(x) == days_before_year(x.year) + days_before_month(x.year, x.month) + x.day

\* datetime.fromordinal: divmod by the 400, 100, 4 and 1 year cycles
fromordinal(n) ==
    LET n0 == n - 1
        n400 == n0 \div 146097
        r400 == n0 % 146097
        n100 == r400 \div 36524
        r100 == r400 % 36524
        n4 == r100 \div 1461
        r4 == r100 % 1461
        n1 == r4 \div 365
        r1 == r4 % 365
        y == n400 * 400 + 1 + n100 * 100 + n4 * 4 + n1
    IN  IF n1 = 4 \/ n100 = 4 THEN mkdate(y - 1, 12, 31)
        ELSE LET leap == n1 = 3 /\ (n4 # 24 \/ n100 = 3)
                 m0 == (r1 + 50) \div 32
                 p0 == <<0, 31, 59, 90, 120, 151, 181, 212, 243, 273, 304, 334>>[m0]
                         + (IF m0 > 2 /\ leap THEN 1 ELSE 0)
                 m == IF p0 > r1 THEN m0 - 1 ELSE m0
                 p == IF p0 > r1
                      THEN p0 - (IF m = 2 /\ leap THEN 29
                                 ELSE IF m = 2 THEN 28
                                 ELSE IF m \in {4, 6, 9, 11} THEN 30 ELSE 31)
                      ELSE p0
             IN  mkdate(y, m, r1 - p + 1)

\* x + timedelta(days=n)
timedelta_add(x, n) == fromordinal(toordinal(x) + n)

\* datetime.isoweekday: Monday is 1, Sunday is 7
isoweekday(x) == IF toordinal(x) % 7 = 0 THEN 7 ELSE toordinal(x) % 7

---------------------------------------------------------------------------
(* get_easter_sunday *)

\* m = int((a + 11 * h + 22 * l) / 451); the operands are never negative
easter_m_no_correction(a, h, l) == 0

easter_m(a, h, l) == (a + 11 * h + 22 * l) \div 451

easter_month(h, l, m) == (h + l - 7 * m + 114) \div 31

easter_day(h, l, m) == ((h + l - 7 * m + 114) % 31) + 1

\* the year check of get_easter_sunday
year_too_small_off_by_one(y) == y < MinValidYear - 1

year_too_small(y) == y < MinValidYear

get_easter_sunday(y) ==
    IF year_too_small(y) THEN PyRaise("ValueError")
    ELSE LET a == y % 19
             b == y \div 100
             c == y % 100
             dd == b \div 4
             e == b % 4
             f == (b + 8) \div 25
             g == (b - f + 1) \div 3
             h == (19 * a + b - dd - g + 15) % 30
             i == c \div 4
             k == c % 4
             l == (32 + 2 * e + 2 * i - h - k) % 7
             m == easter_m(a, h, l)
         IN  datetime(y, easter_month(h, l, m), easter_day(h, l, m))

---------------------------------------------------------------------------
(* The holiday rules, in the order the decorator registers them *)

\* a rule of the form  dt.date() == (get_easter_sunday(dt.year) + timedelta(n)).date()
easter_offset_rule(x, n) ==
    LET e == get_easter_sunday(x.year)
    IN  IF e.exc # "none" THEN e ELSE PyBool(x = timedelta_add(e.date, n))

january_1st(x) == PyBool(x.month = 1 /\ x.day = 1)

holy_thursday(x) == easter_offset_rule(x, -3)

good_friday(x) == easter_offset_rule(x, -2)

easter_sunday(x) == easter_offset_rule(x, 0)

easter_monday(x) == easter_offset_rule(x, 1)

\* the loop test of __first_day_of_summer: isoweekday() == 4
summer_found(x) == isoweekday(x) = 4

\* the loop test of __merchant_holiday: isoweekday() == 1
merchant_found_weekday_zero_based(x) == isoweekday(x) - 1 = 1

merchant_found(x) == isoweekday(x) = 1

\* d = d + timedelta(days=1)
next_day_stuck(x) == x

next_day(x) == timedelta_add(x, 1)

\* while True: if d.isoweekday() == 4: break; d = d + timedelta(days=1)
RECURSIVE summer_search(_)
summer_search(x) == IF summer_found(x) THEN x ELSE summer_search(next_day(x))

RECURSIVE merchant_search(_)
merchant_search(x) == IF merchant_found(x) THEN x ELSE merchant_search(next_day(x))

first_day_of_summer(x) ==
    IF x.month # 4 THEN PyBool(FALSE)
    ELSE PyBool(x = summer_search(mkdate(x.year, 4, 19)))

may_1st(x) == PyBool(x.month = 5 /\ x.day = 1)

ascension_of_jesus(x) == easter_offset_rule(x, 39)

pentecost_off_by_one(x) == easter_offset_rule(x, 50)

pentecost(x) == easter_offset_rule(x, 49)

whit_monday_off_by_one(x) == easter_offset_rule(x, 51)

whit_monday(x) == easter_offset_rule(x, 50)

june_17th(x) == PyBool(x.month = 6 /\ x.day = 17)

merchant_holiday(x) ==
    IF x.month # 8 THEN PyBool(FALSE)
    ELSE PyBool(x = merchant_search(mkdate(x.year, 8, 1)))

christmas_eve(x) == PyBool(x.month = 12 /\ x.day = 24)

christmast_day(x) == PyBool(x.month = 12 /\ x.day = 25)

second_day_of_christmas(x) == PyBool(x.month = 12 /\ x.day = 26)

new_years_eve(x) == PyBool(x.month = 12 /\ x.day = 31)

\* the registry without its last entry
holiday_funs_missing_last ==
    <<"january_1st", "holy_thursday", "good_friday", "easter_sunday",
      "easter_monday", "first_day_of_summer", "may_1st", "ascension_of_jesus",
      "pentecost", "whit_monday", "june_17th", "merchant_holiday",
      "christmas_eve", "christmast_day", "second_day_of_christmas">>

\* the registry with the first rule registered last
holiday_funs_january_last ==
    <<"holy_thursday", "good_friday", "easter_sunday",
      "easter_monday", "first_day_of_summer", "may_1st", "ascension_of_jesus",
      "pentecost", "whit_monday", "june_17th", "merchant_holiday",
      "christmas_eve", "christmast_day", "second_day_of_christmas",
      "new_years_eve", "january_1st">>

\* __holiday_funs after the module has loaded
holiday_funs ==
    <<"january_1st", "holy_thursday", "good_friday", "easter_sunday",
      "easter_monday", "first_day_of_summer", "may_1st", "ascension_of_jesus",
      "pentecost", "whit_monday", "june_17th", "merchant_holiday",
      "christmas_eve", "christmast_day", "second_day_of_christmas",
      "new_years_eve">>

\* fun(dt) for a registered fun
call_rule(f, x) ==
    CASE f = "january_1st" -> january_1st(x)
      [] f = "holy_thursday" -> holy_thursday(x)
      [] f = "good_friday" -> good_friday(x)
      [] f = "easter_sunday" -> easter_sunday(x)
      [] f = "easter_monday" -> easter_monday(x)
      [] f = "first_day_of_summer" -> first_day_of_summer(x)
      [] f = "may_1st" -> may_1st(x)
      [] f = "ascension_of_jesus" -> ascension_of_jesus(x)
      [] f = "pentecost" -> pentecost(x)
      [] f = "whit_monday" -> whit_monday(x)
      [] f = "june_17th" -> june_17th(x)
      [] f = "merchant_holiday" -> merchant_holiday(x)
      [] f = "christmas_eve" -> christmas_eve(x)
      [] f = "christmast_day" -> christmast_day(x)
      [] f = "second_day_of_christmas" -> second_day_of_christmas(x)
      [] f = "new_years_eve" -> new_years_eve(x)

---------------------------------------------------------------------------
(* The queries *)

is_weekday(x) == 1 <= isoweekday(x) /\ isoweekday(x) <= 5

\* for fun in funs: if fun(dt): return True; then return False.
\* A raise inside fun(dt) leaves the loop and the function.
RECURSIVE holiday_loop(_, _)
holiday_loop(funs, x) ==
    IF funs = <<>> THEN PyBool(FALSE)
    ELSE LET r == call_rule(Head(funs), x)
         IN  IF r.exc # "none" THEN r
             ELSE IF r.b THEN PyBool(TRUE)
             ELSE holiday_loop(Tail(funs), x)

is_holiday(x) == holiday_loop(holiday_funs, x)

\* is_weekday(dt) and not is_holiday(dt): "and" does not evaluate its right
\* operand when the left one is False
is_businessday_ignores_weekday(x) ==
    LET h == is_holiday(x)
    IN  IF h.exc # "none" THEN h ELSE PyBool(~h.b)

is_businessday(x) ==
    IF ~is_weekday(x) THEN PyBool(FALSE)
    ELSE LET h == is_holiday(x)
         IN  IF h.exc # "none" THEN h ELSE PyBool(~h.b)

\* is_businessday(dt) or (__new_years_eve(dt) and is_weekday(dt))
is_bankday_no_carve_out(x) == is_businessday(x)

is_bankday(x) ==
    LET bd == is_businessday(x)
    IN  IF bd.exc # "none" THEN bd
        ELSE IF bd.b THEN PyBool(TRUE)
        ELSE PyBool(new_years_eve(x).b /\ is_weekday(x))

---------------------------------------------------------------------------
(* Inputs *)

OldYears == (MinValidYear - OldSpan)..(MinValidYear + OldSpan)

ModernYears == (RefYear - ModernSpan)..(RefYear + ModernSpan)

EasterYears ==
    ((MinValidYear - OldSpan)..(TestLastYear + EasterMargin))
        \cup ((MAXYEAR - TopSpan)..(MAXYEAR + TopSpan))

\* the datetimes a caller can construct in the years Y
DatesOf(Y) ==
    {x \in [year : Y, month : 1..12, day : 1..31] :
        valid_date(x.year, x.month, x.day)}

\* the rules that contain no loop
PlainRules ==
    {holiday_funs[i] : i \in 1..Len(holiday_funs)}
        \ {"first_day_of_summer", "merchant_holiday"}

---------------------------------------------------------------------------
(* The queries, each called on a datetime *)

Init ==
    /\ dt \in DatesOf(OldYears \cup ModernYears)
    /\ year = dt.year
    /\ pc = "call"
    /\ op = "none"
    /\ result = NoResult
    /\ d = NoDate
    /\ iters = 0

Returns(f, r) ==
    /\ pc = "call"
    /\ pc' = "done"
    /\ op' = f
    /\ result' = r
    /\ UNCHANGED <<year, dt, d, iters>>

IsWeekday == Returns("is_weekday", PyBool(is_weekday(dt)))

IsHoliday == Returns("is_holiday", is_holiday(dt))

IsBusinessDay == Returns("is_businessday", is_businessday(dt))

IsBankDay == Returns("is_bankday", is_bankday(dt))

Next == IsWeekday \/ IsHoliday \/ IsBusinessDay \/ IsBankDay

Spec == Init /\ [][Next]_vars

---------------------------------------------------------------------------
(* get_easter_sunday, called on a year *)

InitEaster ==
    /\ year \in EasterYears
    /\ dt = NoDate
    /\ pc = "call"
    /\ op = "none"
    /\ result = NoResult
    /\ d = NoDate
    /\ iters = 0

GetEasterSunday == Returns("get_easter_sunday", get_easter_sunday(year))

NextEaster == GetEasterSunday

SpecEaster == InitEaster /\ [][NextEaster]_vars

---------------------------------------------------------------------------
(* The rules, each called on a datetime; the two searching rules run their *)
(* while loop one pass at a time                                           *)

InitRules ==
    /\ dt \in DatesOf(ModernYears)
    /\ year = dt.year
    /\ pc = "call"
    /\ op = "none"
    /\ result = NoResult
    /\ d = NoDate
    /\ iters = 0

CallRule == \E f \in PlainRules : Returns(f, call_rule(f, dt))

\* a searching rule up to its loop: the month test, then d = datetime(year, m, dd)
EnterSearch(f, m, dd, loop) ==
    /\ pc = "call"
    /\ op' = f
    /\ IF dt.month # m
       THEN /\ pc' = "done"
            /\ result' = PyBool(FALSE)
            /\ d' = d
       ELSE /\ pc' = loop
            /\ result' = result
            /\ d' = mkdate(dt.year, m, dd)
    /\ UNCHANGED <<year, dt, iters>>

\* one pass through the loop body: break and return, or step d
LoopPass(loop, found) ==
    /\ pc = loop
    /\ iters < MaxIters
    /\ iters' = iters + 1
    /\ IF found
       THEN /\ pc' = "done"
            /\ result' = PyBool(dt = d)
            /\ d' = d
       ELSE /\ pc' = pc
            /\ result' = result
            /\ d' = next_day(d)
    /\ UNCHANGED <<year, dt, op>>

FirstDayOfSummerEnter == EnterSearch("first_day_of_summer", 4, 19, "summer_loop")

FirstDayOfSummerLoop == LoopPass("summer_loop", summer_found(d))

MerchantHolidayEnter == EnterSearch("merchant_holiday", 8, 1, "merchant_loop")

MerchantHolidayLoop == LoopPass("merchant_loop", merchant_found(d))

NextRules ==
    \/ CallRule
    \/ FirstDayOfSummerEnter
    \/ FirstDayOfSummerLoop
    \/ MerchantHolidayEnter
    \/ MerchantHolidayLoop

SpecRules == InitRules /\ [][NextRules]_vars

---------------------------------------------------------------------------
(* The calendar, stated independently of the datetime model above: the     *)
(* Julian day number of a Gregorian date, and the ISO weekday it gives.    *)

JulianDay(x) ==
    LET a == (14 - x.month) \div 12
        y == x.year + 4800 - a
        m == x.month + 12 * a - 3
    IN  x.day + ((153 * m + 2) \div 5) + 365 * y
            + (y \div 4) - (y \div 100) + (y \div 400) - 32045

CalWeekday(x) == (JulianDay(x) % 7) + 1

Done(f) == pc = "done" /\ op = f

\* x is the first date on or after month m, day dd of its year with ISO weekday wd
FirstOnOrAfter(x, m, dd, wd) ==
    /\ x.month = m
    /\ x.day >= dd
    /\ CalWeekday(x) = wd
    /\ \A k \in dd..(x.day - 1) : CalWeekday(mkdate(x.year, m, k)) # wd

\* x lies n days after Easter Sunday of its year
AfterEaster(x, n) ==
    JulianDay(x) = JulianDay(get_easter_sunday(x.year).date) + n

\* the sixteen conditions of the rule table
InRuleTable(x) ==
    \/ x.month = 1 /\ x.day = 1
    \/ \E n \in {-3, -2, 0, 1, 39, 49, 50} : AfterEaster(x, n)
    \/ FirstOnOrAfter(x, 4, 19, 4)
    \/ x.month = 5 /\ x.day = 1
    \/ x.month = 6 /\ x.day = 17
    \/ FirstOnOrAfter(x, 8, 1, 1)
    \/ x.month = 12 /\ x.day \in {24, 25, 26, 31}

\* the rules that are true of x
TrueRules(x) ==
    {f \in {holiday_funs[i] : i \in 1..Len(holiday_funs)} : call_rule(f, x).b}

Reverse(q) == [i \in 1..Len(q) |-> q[Len(q) + 1 - i]]

---------------------------------------------------------------------------
(* C1: for every year in 1800..2200 get_easter_sunday returns a date of    *)
(* that year that is a Sunday between March 22 and April 25 inclusive, and *)
(* exactly one date of the year satisfies the Easter Sunday rule.          *)
C1_EasterSundayInRange ==
    (Done("get_easter_sunday") /\ year \in TestFirstYear..TestLastYear) =>
        /\ result.exc = "none"
        /\ result.date.year = year
        /\ CalWeekday(result.date) = 7
        /\ \/ result.date.month = 3 /\ result.date.day \in 22..31
           \/ result.date.month = 4 /\ result.date.day \in 1..25
        /\ Cardinality({x \in DatesOf({year}) : easter_sunday(x).b}) = 1
        /\ easter_sunday(result.date).b

\* a year whose computation takes the correction m = 1 (Easter moves a week back)
C1_Witness ==
    /\ Done("get_easter_sunday")
    /\ year = 1981
    /\ result = PyDate(mkdate(1981, 4, 19))

C3_BusinessDayIsWeekdayNotHoliday ==
    (Done("is_businessday") /\ dt.year >= MinValidYear) =>
        /\ result = PyBool(CalWeekday(dt) \in 1..5 /\ ~InRuleTable(dt))
        /\ result = PyBool(is_weekday(dt) /\ ~is_holiday(dt).b)
        /\ ~(result.b /\ is_holiday(dt).b)
        /\ CalWeekday(dt) \in 1..5 => result = PyBool(~is_holiday(dt).b)

\* a holiday on a weekday, and so not a business day
C3_Witness ==
    /\ Done("is_businessday")
    /\ dt.year >= MinValidYear
    /\ CalWeekday(dt) \in 1..5
    /\ is_holiday(dt) = PyBool(TRUE)
    /\ result = PyBool(FALSE)

(* C4: for a date of year >= 1583, is_bankday is is_businessday or         *)
(* (December 31 and is_weekday): every December 31 on Monday..Friday is a  *)
(* bank day although it is a holiday and no business day, and no other     *)
(* holiday is a bank day.                                                  *)
C4_BankDayCarveOut ==
    (Done("is_bankday") /\ dt.year >= MinValidYear) =>
        LET nye == dt.month = 12 /\ dt.day = 31
            wd == CalWeekday(dt) \in 1..5
        IN  /\ result = PyBool(is_businessday(dt).b \/ (nye /\ wd))
            /\ (nye /\ wd) =>
                  /\ result = PyBool(TRUE)
                  /\ is_holiday(dt) = PyBool(TRUE)
                  /\ is_businessday(dt) = PyBool(FALSE)
            /\ (is_holiday(dt).b /\ result.b) => (nye /\ wd)

\* 2013-12-31, a Tuesday
C4_Witness ==
    /\ Done("is_bankday")
    /\ dt = mkdate(RefYear, 12, 31)
    /\ CalWeekday(dt) = 2
    /\ result = PyBool(TRUE)

\* the date get_easter_sunday returned is a valid date in March or April
EasterDateValid ==
    /\ result.exc = "none"
    /\ result.date.year = year
    /\ result.date.month \in {3, 4}
    /\ result.date.day \in 1..(IF result.date.month = 3 THEN 31 ELSE 30)

C6_Original ==
    (pc = "done" /\ op \in {"is_holiday", "is_businessday", "is_bankday"}
        /\ dt.year < MinValidYear) =>
        result = PyRaise("ValueError")

(* C6 amended: for a date of year < 1583, is_holiday raises the ValueError *)
(* of get_easter_sunday unless the date is January 1, for which the first  *)
(* registered rule matches and is_holiday returns True; is_businessday and *)
(* is_bankday raise it on Monday..Friday other than January 1, and return  *)
(* False on a Saturday or Sunday (is_holiday is not evaluated) and on      *)
(* January 1.                                                              *)
C6_ErrorUnlessShortCircuit ==
    (pc = "done" /\ dt.year < MinValidYear) =>
        LET jan1 == dt.month = 1 /\ dt.day = 1
            weekend == CalWeekday(dt) \in {6, 7}
        IN  /\ op = "is_holiday" =>
                  result = IF jan1 THEN PyBool(TRUE) ELSE PyRaise("ValueError")
            /\ op \in {"is_businessday", "is_bankday"} =>
                  result = IF jan1 \/ weekend THEN PyBool(FALSE)
                           ELSE PyRaise("ValueError")

\* January 1 of a year before 1583: True, no error
C6_Witness ==
    /\ Done("is_holiday")
    /\ dt = mkdate(MinValidYear - 1, 1, 1)
    /\ result = PyBool(TRUE)

(* C7 as stated: for a date of year >= 1583 at most one of the sixteen     *)
(* rules is true.                                                          *)
C7_Original ==
    (Done("is_holiday") /\ dt.year >= MinValidYear) =>
        Cardinality(TrueRules(dt)) <= 1

(* C7 amended: for a date of year >= 1583 at most two of the sixteen rules *)
(* are true, and two only as Holy Thursday with First Day of Summer or as  *)
(* Labour Day with Ascension Day; no rule raises, so is_holiday is the OR  *)
(* of the rules and the order in which it evaluates them is irrelevant.    *)
C7_AtMostTwoRules ==
    (Done("is_holiday") /\ dt.year >= MinValidYear) =>
        /\ Cardinality(TrueRules(dt)) <= 2
        /\ Cardinality(TrueRules(dt)) = 2 =>
              TrueRules(dt) \in {{"holy_thursday", "first_day_of_summer"},
                                 {"may_1st", "ascension_of_jesus"}}
        /\ \A i \in 1..Len(holiday_funs) : call_rule(holiday_funs[i], dt).exc = "none"
        /\ result = PyBool(TrueRules(dt) # {})
        /\ result = holiday_loop(Reverse(holiday_funs), dt)

\* a date on which two rules are true
C7_Witness ==
    /\ Done("is_holiday")
    /\ dt.year >= MinValidYear
    /\ Cardinality(TrueRules(dt)) = 2
    /\ result = PyBool(TRUE)

\* the rule op is true of dt exactly when dt is month m, day dd of 2013
OnlyOn(f, m, dd) ==
    (Done(f) /\ dt.year = RefYear) => result = PyBool(dt = mkdate(RefYear, m, dd))

(* C8 as stated: in 2013 Holy Thursday is 03-28, Good Friday 03-29, Easter *)
(* Sunday 03-31, Easter Monday 04-01, Ascension Day 05-09, Pentecost 05-20 *)
(* and Whit Monday 05-21, each rule true on that date only.                *)
C8_Original ==
    /\ OnlyOn("holy_thursday", 3, 28)
    /\ OnlyOn("good_friday", 3, 29)
    /\ OnlyOn("easter_sunday", 3, 31)
    /\ OnlyOn("easter_monday", 4, 1)
    /\ OnlyOn("ascension_of_jesus", 5, 9)
    /\ OnlyOn("pentecost", 5, 20)
    /\ OnlyOn("whit_monday", 5, 21)

(* C8 amended: in 2013 Holy Thursday is 03-28, Good Friday 03-29, Easter   *)
(* Sunday 03-31, Easter Monday 04-01, Ascension Day 05-09, Pentecost 05-19 *)
(* and Whit Monday 05-20, each rule true on that date only.                *)
C8_EasterDates2013 ==
    /\ OnlyOn("holy_thursday", 3, 28)
    /\ OnlyOn("good_friday", 3, 29)
    /\ OnlyOn("easter_sunday", 3, 31)
    /\ OnlyOn("easter_monday", 4, 1)
    /\ OnlyOn("ascension_of_jesus", 5, 9)
    /\ OnlyOn("pentecost", 5, 19)
    /\ OnlyOn("whit_monday", 5, 20)

\* Whit Monday 2013
C8_Witness ==
    /\ Done("whit_monday")
    /\ dt = mkdate(RefYear, 5, 20)
    /\ result = PyBool(TRUE)

\* the fixed points the original and the amended claim share
FixedPointsHolidays ==
    /\ (Done("is_holiday") /\ dt \in {mkdate(RefYear, 1, 1), mkdate(RefYear, 6, 17),
                                      mkdate(RefYear, 8, 5)}) =>
            result = PyBool(TRUE)
    /\ FirstOnOrAfter(mkdate(RefYear, 8, 5), 8, 1, 1)
    /\ (Done("is_businessday") /\ dt = mkdate(RefYear, 1, 8)) =>
            result = PyBool(TRUE)

(* C9 as stated: is_holiday is True of 2013-01-01, 2013-06-17 and          *)
(* 2013-08-05 (the first Monday of August 2013), is_businessday is True of *)
(* 2013-01-08, and is_businessday is False of 2013-02-14 because that date *)
(* falls on a weekend.                                                     *)
C9_Original ==
    /\ FixedPointsHolidays
    /\ (Done("is_businessday") /\ dt = mkdate(RefYear, 2, 14)) =>
            /\ result = PyBool(FALSE)
            /\ CalWeekday(dt) \in {6, 7}

(* C9 amended: is_holiday is True of 2013-01-01, 2013-06-17 and 2013-08-05 *)
(* (the first Monday of August 2013), is_businessday is True of            *)
(* 2013-01-08, and is_businessday is True of 2013-02-14, a Thursday that   *)
(* is no holiday.                                                          *)
C9_FixedPoints ==
    /\ FixedPointsHolidays
    /\ (Done("is_businessday") /\ dt = mkdate(RefYear, 2, 14)) =>
            /\ result = PyBool(TRUE)
            /\ CalWeekday(dt) = 4
            /\ ~InRuleTable(dt)

\* 2013-02-14 is a business day
C9_Witness ==
    /\ Done("is_businessday")
    /\ dt = mkdate(RefYear, 2, 14)
    /\ result = PyBool(TRUE)

\* the search of rule f from month m, day dd for weekday wd, in loop state loop
SearchBounded(f, loop, m, dd, wd) ==
    /\ pc = loop =>
          /\ iters <= 6
          /\ d.year = dt.year /\ d.month = m
          /\ d.day = dd + iters
          /\ \A k \in dd..(d.day - 1) : CalWeekday(mkdate(d.year, m, k)) # wd
    /\ (Done(f) /\ dt.month = m) =>
          /\ 1 <= iters /\ iters <= 7
          /\ d.year = dt.year
          /\ d.day = dd + iters - 1
          /\ FirstOnOrAfter(d, m, dd, wd)
          /\ d.day \in dd..(dd + 6)
          /\ result = PyBool(dt = d)
    /\ (Done(f) /\ dt.month # m) => (iters = 0 /\ result = PyBool(FALSE))
    /\ Done(f) => result = PyBool(FirstOnOrAfter(dt, m, dd, wd))

(* C10: in every year the forward search of the First Day of Summer rule   *)
(* (from April 19, for Thursday) and of the Merchant Holiday rule (from    *)
(* August 1, for Monday) ends within 7 passes through the loop (at most 6  *)
(* day increments) on the first Thursday on or after April 19, a Thursday  *)
(* in April 19..25, respectively on the first Monday of August, a Monday   *)
(* in August 1..7, so each rule is true of exactly one date of the year.   *)
C10_SearchEndsWithinSevenPasses ==
    /\ SearchBounded("first_day_of_summer", "summer_loop", 4, 19, 4)
    /\ SearchBounded("merchant_holiday", "merchant_loop", 8, 1, 1)
    /\ iters <= 7
    /\ pc \in {"call", "done", "summer_loop", "merchant_loop"}

\* the longest search: April 19, 2013 is a Friday, the loop ends on its 7th pass
C10_Witness ==
    /\ Done("first_day_of_summer")
    /\ dt = mkdate(RefYear, 4, 25)
    /\ d = dt
    /\ iters = 7
    /\ result = PyBool(TRUE)

===========================================================================
